---- MODULE Spec2Model ----
(***************************************************************************)
(* Basic-block matching of two flow graphs by instruction prime product    *)
(* (MatchingStepPrimeBasicBlock) and the pipeline that drives it.          *)
(*                                                                         *)
(* A flow graph is a record: its vertices, its edges, and per vertex the   *)
(* instruction count, the prime product and the fixed point annotation.    *)
(* A VertexIntMap (a std::multimap from prime to vertex) is the set of its *)
(* <<prime, vertex>> entries.  A basic block fixed point is the pair       *)
(* <<primary vertex, secondary vertex>>.                                   *)
(*                                                                         *)
(* Two further parts run on their own: the prime product of a basic block  *)
(* (PrimeSpec), and the SQLite adapter, SqliteDatabase and SqliteStatement *)
(* of sqlite.cc over the SQLite library (SqlSpec for the connection, its   *)
(* transactions and statement lifetimes, StatementSpec for the bind and    *)
(* column cursors of the statements of a connected database).              *)
(***************************************************************************)
EXTENDS Integers, FiniteSets, Sequences, TLC

\* Bounds of the model.
MaxVertices == 2
MaxSteps == 2

\* Values the inputs are drawn from.
InstructionCounts == {1, 2}
PrimeValues == {30, 42}
MinInstructionChoices == {-1, 2}

\* The driver cannot need more passes than this; the guard of NextPass caps
\* the pass counter there.
MaxPasses == 2 * MaxVertices + 3

\* The width in bits of the integer a prime product is stored in, scaled down
\* from 64, and the longest basic block given to the feature extractor.
PrimeBits == 6
MaxBlockLength == 5

\* Bounds of the persistence adapter: connection handles the library gives
\* out, SqliteStatement objects alive at once, the furthest a bind or column
\* cursor is driven, and rows written and not rolled back.
MaxHandles == 2
MaxStatements == 1
MaxCursor == 2
MaxRows == 2

\* The coarse instruction classes of the modelled blocks.
InstructionClasses == {"mov", "add", "ret"}

VARIABLES
  primary,         \* FlowGraph* primary
  secondary,       \* FlowGraph* secondary
  fixed_point,     \* FixedPoint: the set of accepted basic block pairs
  vertices1,       \* the driver's unmatched Vertex Set of primary
  vertices2,       \* the driver's unmatched Vertex Set of secondary
  matching_steps,  \* the ordered catalogue of Matching Steps
  phase,           \* "setup" | "run" | "converged"
  step_index,      \* the step of the catalogue that runs next in this pass
  pass,            \* the number of the current pass
  progress,        \* whether a step of the current pass returned true
  last             \* the most recent step invocation: its inputs and result

\* The state of a matching run.
matchingVars == <<primary, secondary, fixed_point, vertices1, vertices2,
                  matching_steps, phase, step_index, pass, progress, last>>

VARIABLES
  instructions,           \* a basic block: its sequence of instruction classes
  original_instructions,  \* the basic block as it was first given
  edit                    \* "none" | "permuted" | "substituted"

\* The state of the feature extractor.
primeVars == <<instructions, original_instructions, edit>>

VARIABLES
  database_,     \* SqliteDatabase::database_: a connection handle, or NullHandle
  db_alive,      \* whether the SqliteDatabase object has not been destroyed
  connections,   \* the connection handles of the SQLite library
  store,         \* how many rows the database file holds
  partial,       \* how many of them a batch with a failed execution committed
  statements,    \* the SqliteStatement objects
  sql_last       \* the most recent call and what it did

\* The state of the persistence adapter.
sqlVars == <<database_, db_alive, connections, store, partial, statements,
             sql_last>>

\* What a matching run leaves alone.
notMatchingVars == <<primeVars, sqlVars>>

vars == <<matchingVars, primeVars, sqlVars>>

----------------------------------------------------------------------------
\* Flow graphs.

\* A null BasicBlockFixedPoint pointer.
NoFixedPoint == <<>>

\* Control flow of the modelled functions: each block falls through to the next.
ChainEdges(n) == {<<v, v + 1>> : v \in 1..(n - 1)}

\* Vertices are numbered in the order of their <<prime, instruction count>>:
\* one numbering for each flow graph that differs only in vertex names.
Numbered(n, ic, pr) ==
  \A v \in 1..(n - 1) :
    \/ pr[v] < pr[v + 1]
    \/ pr[v] = pr[v + 1] /\ ic[v] <= ic[v + 1]

FlowGraphs ==
  UNION {
    { [vertices |-> 1..n,
       edges |-> ChainEdges(n),
       instruction_count |-> attr[1],
       prime |-> attr[2],
       fixed_point |-> [v \in 1..n |-> NoFixedPoint]] :
        attr \in { a \in [1..n -> InstructionCounts] \X [1..n -> PrimeValues] :
                     Numbered(n, a[1], a[2]) } } :
    n \in 0..MaxVertices }

GetFixedPoint(flow_graph, vertex) == flow_graph.fixed_point[vertex] # NoFixedPoint

GetInstructionCount(flow_graph, vertex) == flow_graph.instruction_count[vertex]

GetPrime(flow_graph, vertex) == flow_graph.prime[vertex]

\* FlowGraph::SetFixedPoint for every pair of `pairs`, on the side `side`
\* (1 = primary, 2 = secondary) of the pairs.
SetFixedPoints(flow_graph, pairs, side) ==
  [flow_graph EXCEPT !.fixed_point =
     [v \in flow_graph.vertices |->
        IF \E pair \in pairs : pair[side] = v
          THEN CHOOSE pair \in pairs : pair[side] = v
          ELSE flow_graph.fixed_point[v]]]

----------------------------------------------------------------------------
\* The prime matching step.

\* The constructor: it stores min_instructions as given and names the step.
MatchingStepPrimeBasicBlock(min_instructions) ==
  [kind |-> "prime",
   name |-> <<"basicBlock: prime matching (", min_instructions,
              " instructions minimum)">>,
   min_instructions_ |-> min_instructions]

\* Any other heuristic of the catalogue, known only by the Matching Step contract.
MatchingStepOther ==
  [kind |-> "other", name |-> <<"other">>, min_instructions_ |-> 0]

\* The map as a std::map would hold it: one entry per prime, the one of the
\* lowest vertex.
GetUnmatchedBasicBlocksByPrime_UniqueKeys(flow_graph, vertices, basic_blocks_map, min_instructions_) ==
  LET eligible == { v \in vertices :
                      /\ flow_graph.fixed_point[v] = NoFixedPoint
                      /\ flow_graph.instruction_count[v] >= min_instructions_ }
  IN  { <<flow_graph.prime[v], v>> :
          v \in { w \in eligible :
                    \A u \in eligible :
                      flow_graph.prime[u] = flow_graph.prime[w] => w <= u } }

\* The map without the instruction count test.
GetUnmatchedBasicBlocksByPrime_NoMinimum(flow_graph, vertices, basic_blocks_map, min_instructions_) ==
  { <<flow_graph.prime[v], v>> :
      v \in { w \in vertices : flow_graph.fixed_point[w] = NoFixedPoint } }

\* The map without the fixed point test.
GetUnmatchedBasicBlocksByPrime_Matched(flow_graph, vertices, basic_blocks_map, min_instructions_) ==
  { <<flow_graph.prime[v], v>> :
      v \in { w \in vertices :
                flow_graph.instruction_count[w] >= min_instructions_ } }

\* The map with > in place of >= in the instruction count test.
GetUnmatchedBasicBlocksByPrime_Above(flow_graph, vertices, basic_blocks_map, min_instructions_) ==
  { <<flow_graph.prime[v], v>> :
      v \in { w \in vertices :
                /\ flow_graph.fixed_point[w] = NoFixedPoint
                /\ flow_graph.instruction_count[w] > min_instructions_ } }

\* The map after the call: cleared, then one entry per vertex of `vertices`
\* that has no fixed point and has at least min_instructions_ instructions.
GetUnmatchedBasicBlocksByPrime(flow_graph, vertices, basic_blocks_map, min_instructions_) ==
  LET cleared == basic_blocks_map \ basic_blocks_map
  IN  cleared \cup
      { <<GetPrime(flow_graph, vertex), vertex>> :
          vertex \in { v \in vertices :
                         /\ ~GetFixedPoint(flow_graph, v)
                         /\ GetInstructionCount(flow_graph, v)
                              >= min_instructions_ } }

\* std::multimap::count
Count(vertex_map, key) == Cardinality({entry \in vertex_map : entry[1] = key})

\* Pairing: a prime that identifies exactly one vertex in each map gives a pair.
UniquePairs(vertex_map_1, vertex_map_2) ==
  { <<entry1[2], entry2[2]>> :
      <<entry1, entry2>> \in
        { candidate \in vertex_map_1 \X vertex_map_2 :
            /\ candidate[1][1] = candidate[2][1]
            /\ Count(vertex_map_1, candidate[1][1]) = 1
            /\ Count(vertex_map_2, candidate[1][1]) = 1 } }

\* FixedPoint::Add for every pair: the pair joins the fixed point and both
\* vertices are annotated with it.
AddFixedPoints(flow_graph1, flow_graph2, fixed_point_, pairs) ==
  [primary |-> SetFixedPoints(flow_graph1, pairs, 1),
   secondary |-> SetFixedPoints(flow_graph2, pairs, 2),
   fixed_point |-> fixed_point_ \cup pairs,
   result |-> pairs # {}]

FindFixedPointsBasicBlockInternal(flow_graph1, flow_graph2, vertex_map_1, vertex_map_2, fixed_point_) ==
  AddFixedPoints(flow_graph1, flow_graph2, fixed_point_,
                 UniquePairs(vertex_map_1, vertex_map_2))

\* The call with its second map built from the primary arguments again.
FindFixedPoints_PrimaryTwice(flow_graph1, flow_graph2, vertex_set1, vertex_set2, fixed_point_, min_instructions_) ==
  LET vertex_map_1 ==
        GetUnmatchedBasicBlocksByPrime(flow_graph1, vertex_set1, {},
                                       min_instructions_)
  IN  FindFixedPointsBasicBlockInternal(flow_graph1, flow_graph2,
                                        vertex_map_1, vertex_map_1,
                                        fixed_point_)

\* The call returning true whatever the internal search returned.
FindFixedPoints_AlwaysTrue(flow_graph1, flow_graph2, vertex_set1, vertex_set2, fixed_point_, min_instructions_) ==
  LET vertex_map_1 ==
        GetUnmatchedBasicBlocksByPrime(flow_graph1, vertex_set1, {},
                                       min_instructions_)
      vertex_map_2 ==
        GetUnmatchedBasicBlocksByPrime(flow_graph2, vertex_set2, {},
                                       min_instructions_)
  IN  [FindFixedPointsBasicBlockInternal(flow_graph1, flow_graph2,
                                         vertex_map_1, vertex_map_2,
                                         fixed_point_)
         EXCEPT !.result = TRUE]

\* The outcome of one call: the two flow graphs, the fixed point and the
\* returned bool.  The MatchingContext (statistics) and the list of remaining
\* steps are passed through to the internal search and are not part of the
\* outcome.
FindFixedPoints(flow_graph1, flow_graph2, vertex_set1, vertex_set2, fixed_point_, min_instructions_) ==
  LET vertex_map_1 ==
        GetUnmatchedBasicBlocksByPrime(flow_graph1, vertex_set1, {},
                                       min_instructions_)
      vertex_map_2 ==
        GetUnmatchedBasicBlocksByPrime(flow_graph2, vertex_set2, {},
                                       min_instructions_)
  IN  FindFixedPointsBasicBlockInternal(flow_graph1, flow_graph2,
                                        vertex_map_1, vertex_map_2,
                                        fixed_point_)

----------------------------------------------------------------------------
\* The driver.

\* The driver recomputes the set from the pairs of the latest step alone.
RemoveMatched_Recomputed(flow_graph, vertices, old_fixed_point, new_fixed_point, side) ==
  flow_graph.vertices
    \ {pair[side] : pair \in new_fixed_point \ old_fixed_point}

\* The driver removes the vertex of the other side of each accepted pair.
RemoveMatched_OtherSide(flow_graph, vertices, old_fixed_point, new_fixed_point, side) ==
  vertices \ {pair[3 - side] : pair \in new_fixed_point \ old_fixed_point}

\* The unmatched Vertex Set of `flow_graph` after a step: the vertices of the
\* accepted pairs are removed.
RemoveMatched(flow_graph, vertices, old_fixed_point, new_fixed_point, side) ==
  vertices \ {pair[side] : pair \in new_fixed_point \ old_fixed_point}

\* What the driver keeps of a step invocation.
Invocation(step, outcome) ==
  [invoked |-> TRUE,
   step |-> step,
   before |-> [primary |-> primary, secondary |-> secondary,
               fixed_point |-> fixed_point,
               vertices1 |-> vertices1, vertices2 |-> vertices2],
   result |-> outcome.result]

\* The driver takes the outcome of a step.
Accept(step, outcome) ==
  /\ primary' = outcome.primary
  /\ secondary' = outcome.secondary
  /\ fixed_point' = outcome.fixed_point
  /\ vertices1' = RemoveMatched(primary, vertices1, fixed_point,
                                outcome.fixed_point, 1)
  /\ vertices2' = RemoveMatched(secondary, vertices2, fixed_point,
                                outcome.fixed_point, 2)
  /\ progress' = (progress \/ outcome.result)
  /\ step_index' = step_index + 1
  /\ last' = Invocation(step, outcome)
  /\ UNCHANGED <<matching_steps, phase, pass>>
  /\ UNCHANGED notMatchingVars

\* No basic block is given to the feature extractor.
PrimeIdle ==
  /\ instructions = <<>>
  /\ original_instructions = <<>>
  /\ edit = "none"

\* A null sqlite3* or sqlite3_stmt*.
NullHandle == 0

\* A connection handle the library has not given out, or has closed.
UnopenedConnection ==
  [state |-> "unopened", statements |-> 0, close_refused |-> FALSE,
   in_transaction |-> FALSE, pending |-> 0, failed |-> FALSE]

\* No SqliteStatement object.
NoStatement ==
  [alive |-> FALSE, database_ |-> NullHandle, sql |-> "", parameter_ |-> 0,
   column_ |-> 0, got_data_ |-> FALSE, binds |-> 0, intos |-> 0]

\* No call has been made.
NoCall ==
  [op |-> "none", threw |-> FALSE, index |-> 0, nth |-> 0]

\* The SQL texts the callers prepare; "malformed" stands for any text that
\* sqlite3_prepare_v2 rejects.
StatementTexts == {"insert", "select", "malformed"}

\* The return codes sqlite3_step can give an insert and a select.
StepOutcomes == {"SQLITE_DONE", "SQLITE_ROW", "SQLITE_CONSTRAINT"}

\* The value types of the Into overloads.
IntoTypes == {"int", "int64", "Address", "double", "string"}

\* The handles the library has given out and not closed.
OpenHandles(conns) == {h \in DOMAIN conns : conns[h].state = "open"}

\* The handle the next sqlite3_open gives out.
FreshHandle(conns) ==
  CHOOSE h \in DOMAIN conns :
    /\ conns[h].state = "unopened"
    /\ \A g \in DOMAIN conns : g < h => conns[g].state # "unopened"

\* sqlite3_open: a connection handle is allocated whether or not the file
\* could be opened.
sqlite3_open(conns) ==
  [handle |-> FreshHandle(conns),
   connections |-> [conns EXCEPT ![FreshHandle(conns)].state = "open"]]

\* sqlite3_close: a connection with unfinalized prepared statements is left
\* open and SQLITE_BUSY is returned; otherwise an open transaction is rolled
\* back, the handle is closed and its memory is free to be given out again.
sqlite3_close(conns, handle) ==
  IF conns[handle].statements > 0
  THEN [return_code |-> "SQLITE_BUSY",
        connections |-> [conns EXCEPT ![handle].close_refused = TRUE]]
  ELSE [return_code |-> "SQLITE_OK",
        connections |-> [conns EXCEPT ![handle] = UnopenedConnection]]

\* sqlite3_prepare_v2: fails on a null connection and on malformed SQL.
sqlite3_prepare_v2(handle, sql) ==
  IF handle = NullHandle THEN "SQLITE_MISUSE"
  ELSE IF sql = "malformed" THEN "SQLITE_ERROR"
  ELSE "SQLITE_OK"

\* sqlite3_step on a connection: what the statement does to the connection's
\* transaction and how many rows it adds to the database file.  A failed
\* statement leaves the enclosing transaction open.
sqlite3_step(conn, sql, outcome) ==
  CASE sql = "begin transaction" ->
         IF conn.in_transaction
         THEN [return_code |-> "SQLITE_ERROR", connection |-> conn,
               persisted |-> 0, partial |-> 0]
         ELSE [return_code |-> "SQLITE_DONE",
               connection |-> [conn EXCEPT !.in_transaction = TRUE,
                                           !.pending = 0, !.failed = FALSE],
               persisted |-> 0, partial |-> 0]
    [] sql = "commit transaction" ->
         IF ~conn.in_transaction
         THEN [return_code |-> "SQLITE_ERROR", connection |-> conn,
               persisted |-> 0, partial |-> 0]
         ELSE [return_code |-> "SQLITE_DONE",
               connection |-> [conn EXCEPT !.in_transaction = FALSE,
                                           !.pending = 0, !.failed = FALSE],
               persisted |-> conn.pending,
               partial |-> IF conn.failed THEN conn.pending ELSE 0]
    [] sql = "rollback transaction" ->
         IF ~conn.in_transaction
         THEN [return_code |-> "SQLITE_ERROR", connection |-> conn,
               persisted |-> 0, partial |-> 0]
         ELSE [return_code |-> "SQLITE_DONE",
               connection |-> [conn EXCEPT !.in_transaction = FALSE,
                                           !.pending = 0, !.failed = FALSE],
               persisted |-> 0, partial |-> 0]
    [] sql = "insert" /\ outcome = "SQLITE_DONE" ->
         IF conn.in_transaction
         THEN [return_code |-> outcome,
               connection |-> [conn EXCEPT !.pending = @ + 1],
               persisted |-> 0, partial |-> 0]
         ELSE [return_code |-> outcome, connection |-> conn,
               persisted |-> 1, partial |-> 0]
    [] sql = "select" /\ outcome \in {"SQLITE_DONE", "SQLITE_ROW"} ->
         [return_code |-> outcome, connection |-> conn,
          persisted |-> 0, partial |-> 0]
    [] OTHER ->
         [return_code |-> "SQLITE_CONSTRAINT",
          connection |-> [conn EXCEPT !.failed = conn.in_transaction],
          persisted |-> 0, partial |-> 0]

\* The rows written on the connections and not yet committed.
RECURSIVE PendingRows(_, _)
PendingRows(conns, n) ==
  IF n = 0 THEN 0 ELSE conns[n].pending + PendingRows(conns, n - 1)

\* SqliteDatabase::Connect with the outcome of sqlite3_open.
Connect_NoCheck(database, conns, return_code) ==
  LET opened == sqlite3_open(conns)
  IN IF return_code # "SQLITE_OK"
     THEN [database_ |-> NullHandle,
           connections |-> sqlite3_close(opened.connections,
                                         opened.handle).connections,
           threw |-> TRUE]
     ELSE [database_ |-> opened.handle, connections |-> opened.connections,
           threw |-> FALSE]

Connect_Dangling(database, conns, return_code) ==
  IF database # NullHandle
  THEN [database_ |-> database, connections |-> conns, threw |-> TRUE]
  ELSE LET opened == sqlite3_open(conns)
       IN IF return_code # "SQLITE_OK"
          THEN [database_ |-> opened.handle,
                connections |-> sqlite3_close(opened.connections,
                                              opened.handle).connections,
                threw |-> TRUE]
          ELSE [database_ |-> opened.handle,
                connections |-> opened.connections, threw |-> FALSE]

Connect(database, conns, return_code) ==
  IF database # NullHandle
  THEN [database_ |-> database, connections |-> conns, threw |-> TRUE]
  ELSE LET opened == sqlite3_open(conns)
       IN IF return_code # "SQLITE_OK"
          THEN [database_ |-> NullHandle,
                connections |-> sqlite3_close(opened.connections,
                                              opened.handle).connections,
                threw |-> TRUE]
          ELSE [database_ |-> opened.handle,
                connections |-> opened.connections, threw |-> FALSE]

\* SqliteDatabase::Disconnect.
Disconnect(database, conns) ==
  IF database = NullHandle
  THEN [database_ |-> database, connections |-> conns]
  ELSE [database_ |-> NullHandle,
        connections |-> sqlite3_close(conns, database).connections]

\* SqliteStatement::SqliteStatement once sqlite3_prepare_v2 has succeeded.
SqliteStatement(database, statement) ==
  [alive |-> TRUE, database_ |-> database, sql |-> statement,
   parameter_ |-> 0, column_ |-> 0, got_data_ |-> FALSE,
   binds |-> 0, intos |-> 0]

\* The Bind* functions: the statement afterwards and the positional parameter
\* handed to sqlite3_bind_*.
BindInt_PostIncrement(statement) ==
  [statement |-> [statement EXCEPT !.parameter_ = @ + 1],
   index |-> statement.parameter_]

BindInt(statement) ==
  [statement |-> [statement EXCEPT !.parameter_ = @ + 1],
   index |-> statement.parameter_ + 1]

BindInt64(statement) ==
  [statement |-> [statement EXCEPT !.parameter_ = @ + 1],
   index |-> statement.parameter_ + 1]

BindDouble(statement) ==
  [statement |-> [statement EXCEPT !.parameter_ = @ + 1],
   index |-> statement.parameter_ + 1]

BindText(statement) ==
  [statement |-> [statement EXCEPT !.parameter_ = @ + 1],
   index |-> statement.parameter_ + 1]

BindNull(statement) ==
  [statement |-> [statement EXCEPT !.parameter_ = @ + 1],
   index |-> statement.parameter_ + 1]

\* The Into overloads: the statement afterwards and the column handed to
\* sqlite3_column_*.
Into(statement, type) ==
  [statement |-> [statement EXCEPT !.column_ = @ + 1],
   index |-> statement.column_]

\* SqliteStatement::Execute with the return code of sqlite3_step.
Execute(statement, return_code) ==
  IF return_code # "SQLITE_ROW" /\ return_code # "SQLITE_DONE"
  THEN [statement |-> statement, threw |-> TRUE]
  ELSE [statement |-> [statement EXCEPT !.parameter_ = 0, !.column_ = 0,
                                        !.got_data_ =
                                          (return_code = "SQLITE_ROW")],
        threw |-> FALSE]

\* SqliteStatement::Reset.
Reset(statement) == [statement EXCEPT !.got_data_ = FALSE]

\* SqliteStatement::GotData.
GotData(statement) == statement.got_data_

\* A default-constructed SqliteDatabase and an untouched database file.
SqlIdle ==
  /\ database_ = NullHandle
  /\ db_alive = TRUE
  /\ connections = [h \in 1..MaxHandles |-> UnopenedConnection]
  /\ store = 0
  /\ partial = 0
  /\ statements = [s \in 1..MaxStatements |-> NoStatement]
  /\ sql_last = NoCall

\* Everything but the matching run is idle.
NotMatchingIdle == PrimeIdle /\ SqlIdle

Init ==
  /\ NotMatchingIdle
  /\ primary \in FlowGraphs
  /\ secondary \in FlowGraphs
  /\ fixed_point = {}
  /\ vertices1 = primary.vertices
  /\ vertices2 = secondary.vertices
  /\ matching_steps = <<>>
  /\ phase = "setup"
  /\ step_index = 1
  /\ pass = 1
  /\ progress = FALSE
  /\ last = [invoked |-> FALSE,
             step |-> MatchingStepOther,
             before |-> [primary |-> primary, secondary |-> secondary,
                         fixed_point |-> {},
                         vertices1 |-> primary.vertices,
                         vertices2 |-> secondary.vertices],
             result |-> FALSE]

\* Session setup constructs a prime matching step and registers it.
ConstructPrimeStep ==
  /\ phase = "setup"
  /\ Len(matching_steps) < MaxSteps
  /\ \E min_instructions \in MinInstructionChoices :
       matching_steps' =
         Append(matching_steps, MatchingStepPrimeBasicBlock(min_instructions))
  /\ UNCHANGED <<primary, secondary, fixed_point, vertices1, vertices2, phase,
                 step_index, pass, progress, last>>
  /\ UNCHANGED notMatchingVars

\* Session setup registers another heuristic, at most one per catalogue.
ConstructOtherStep ==
  /\ phase = "setup"
  /\ \A i \in 1..Len(matching_steps) : matching_steps[i].kind # "other"
  /\ Len(matching_steps) < MaxSteps
  /\ matching_steps' = Append(matching_steps, MatchingStepOther)
  /\ UNCHANGED <<primary, secondary, fixed_point, vertices1, vertices2, phase,
                 step_index, pass, progress, last>>
  /\ UNCHANGED notMatchingVars

StartRun ==
  /\ phase = "setup"
  /\ phase' = "run"
  /\ UNCHANGED <<primary, secondary, fixed_point, vertices1, vertices2,
                 matching_steps, step_index, pass, progress, last>>
  /\ UNCHANGED notMatchingVars

\* The driver invokes the prime step that is next in the pass.
InvokePrimeStep ==
  /\ phase = "run"
  /\ step_index <= Len(matching_steps)
  /\ matching_steps[step_index].kind = "prime"
  /\ Accept(matching_steps[step_index],
            FindFixedPoints(primary, secondary, vertices1, vertices2,
                            fixed_point,
                            matching_steps[step_index].min_instructions_))

\* The driver invokes another heuristic: it accepts no pair, or one pair of
\* vertices from the unmatched Vertex Sets.
InvokeOtherStep ==
  /\ phase = "run"
  /\ step_index <= Len(matching_steps)
  /\ matching_steps[step_index].kind = "other"
  /\ \E pairs \in {{}} \cup {{pair} : pair \in vertices1 \X vertices2} :
       Accept(matching_steps[step_index],
              AddFixedPoints(primary, secondary, fixed_point, pairs))

\* A pass with a new match is followed by another pass.
NextPass ==
  /\ phase = "run"
  /\ step_index > Len(matching_steps)
  /\ progress
  /\ pass < MaxPasses
  /\ pass' = pass + 1
  /\ step_index' = 1
  /\ progress' = FALSE
  /\ UNCHANGED <<primary, secondary, fixed_point, vertices1, vertices2,
                 matching_steps, phase, last>>
  /\ UNCHANGED notMatchingVars

\* A pass in which no step made a new match ends the run.
Converge ==
  /\ phase = "run"
  /\ step_index > Len(matching_steps)
  /\ ~progress
  /\ phase' = "converged"
  /\ UNCHANGED <<primary, secondary, fixed_point, vertices1, vertices2,
                 matching_steps, step_index, pass, progress, last>>
  /\ UNCHANGED notMatchingVars

Next ==
  \/ ConstructPrimeStep
  \/ ConstructOtherStep
  \/ StartRun
  \/ InvokePrimeStep
  \/ InvokeOtherStep
  \/ NextPass
  \/ Converge

Spec == Init /\ [][Next]_vars

\* The driver runs to the end of the run: no step blocks or suspends.
FairSpec == Spec /\ WF_vars(Next)

----------------------------------------------------------------------------
\* The feature extractor: the prime product of a basic block.

\* No matching run: the driver's state is that of an empty session.
MatchingIdle ==
  /\ primary = [vertices |-> {}, edges |-> {}, instruction_count |-> <<>>,
                prime |-> <<>>, fixed_point |-> <<>>]
  /\ secondary = primary
  /\ fixed_point = {}
  /\ vertices1 = {}
  /\ vertices2 = {}
  /\ matching_steps = <<>>
  /\ phase = "setup"
  /\ step_index = 1
  /\ pass = 1
  /\ progress = FALSE
  /\ last = [invoked |-> FALSE,
             step |-> MatchingStepOther,
             before |-> [primary |-> primary, secondary |-> secondary,
                         fixed_point |-> {}, vertices1 |-> {},
                         vertices2 |-> {}],
             result |-> FALSE]

\* Two instruction classes share a prime.
InstructionPrime_Shared(class) ==
  CASE class = "mov" -> 2
    [] class = "add" -> 3
    [] class = "ret" -> 3

\* The fixed prime of an instruction class.
InstructionPrime(class) ==
  CASE class = "mov" -> 2
    [] class = "add" -> 3
    [] class = "ret" -> 7

\* 2 to the power n.
RECURSIVE TwoToThe(_)
TwoToThe(n) == IF n = 0 THEN 1 ELSE 2 * TwoToThe(n - 1)

\* The product of the instructions' primes, multiplied up instruction by
\* instruction in an integer of PrimeBits bits.
RECURSIVE PrimeProduct(_)
PrimeProduct(block) ==
  IF block = <<>>
    THEN 1
    ELSE (PrimeProduct(SubSeq(block, 1, Len(block) - 1))
            * InstructionPrime(block[Len(block)])) % TwoToThe(PrimeBits)

\* The basic blocks given to the feature extractor.
BasicBlocks ==
  UNION { [1..n -> InstructionClasses] : n \in 0..MaxBlockLength }

PrimeInit ==
  /\ MatchingIdle
  /\ SqlIdle
  /\ instructions \in BasicBlocks
  /\ original_instructions = instructions
  /\ edit = "none"

\* Two instructions of the block change places.
Permute ==
  /\ \E i \in 1..Len(instructions) : \E j \in (i + 1)..Len(instructions) :
       instructions' = [instructions EXCEPT ![i] = instructions[j],
                                            ![j] = instructions[i]]
  /\ edit' = IF edit = "none" THEN "permuted" ELSE edit
  /\ UNCHANGED original_instructions
  /\ UNCHANGED <<matchingVars, sqlVars>>

\* One instruction of the block is replaced by one of another class.
Substitute ==
  /\ edit # "substituted"
  /\ \E i \in 1..Len(instructions) :
       \E class \in InstructionClasses \ {instructions[i]} :
         instructions' = [instructions EXCEPT ![i] = class]
  /\ edit' = "substituted"
  /\ UNCHANGED original_instructions
  /\ UNCHANGED <<matchingVars, sqlVars>>

PrimeNext ==
  \/ Permute
  \/ Substitute

PrimeSpec == PrimeInit /\ [][PrimeNext]_vars

----------------------------------------------------------------------------
\* The persistence adapter: SqliteDatabase and SqliteStatement over the
\* SQLite library.

\* The record of a call.
Call(op, threw, index, nth) ==
  [op |-> op, threw |-> threw, index |-> index, nth |-> nth]

\* The adapter runs alone.
SqlInit ==
  /\ MatchingIdle
  /\ PrimeIdle
  /\ SqlIdle

\* database.Connect(filename): the file opens or it does not.
CallConnect ==
  /\ db_alive
  /\ \E h \in 1..MaxHandles : connections[h].state = "unopened"
  /\ \E return_code \in {"SQLITE_OK", "SQLITE_CANTOPEN"} :
       LET result == Connect(database_, connections, return_code)
       IN /\ database_' = result.database_
          /\ connections' = result.connections
          /\ sql_last' = Call("Connect", result.threw, 0, 0)
  /\ UNCHANGED <<db_alive, store, partial, statements>>
  /\ UNCHANGED <<matchingVars, primeVars>>

\* database.Disconnect().
CallDisconnect ==
  /\ db_alive
  /\ LET result == Disconnect(database_, connections)
     IN /\ database_' = result.database_
        /\ connections' = result.connections
  /\ sql_last' = Call("Disconnect", FALSE, 0, 0)
  /\ UNCHANGED <<db_alive, store, partial, statements>>
  /\ UNCHANGED <<matchingVars, primeVars>>

\* SqliteDatabase::~SqliteDatabase: Disconnect, and the object is gone.
DestroyDatabase ==
  /\ db_alive
  /\ LET result == Disconnect(database_, connections)
     IN /\ database_' = result.database_
        /\ connections' = result.connections
  /\ db_alive' = FALSE
  /\ sql_last' = Call("~SqliteDatabase", FALSE, 0, 0)
  /\ UNCHANGED <<store, partial, statements>>
  /\ UNCHANGED <<matchingVars, primeVars>>

\* database.Statement(sql): a SqliteStatement is constructed over the
\* connection the database holds at that moment, or the constructor throws.
CallStatement ==
  /\ db_alive
  /\ \E s \in 1..MaxStatements, sql \in StatementTexts :
       /\ ~statements[s].alive
       /\ \A t \in 1..MaxStatements : t < s => statements[t].alive
       /\ IF sqlite3_prepare_v2(database_, sql) # "SQLITE_OK"
          THEN /\ sql_last' = Call("Statement", TRUE, 0, 0)
               /\ UNCHANGED <<connections, statements>>
          ELSE /\ statements' =
                    [statements EXCEPT ![s] = SqliteStatement(database_, sql)]
               /\ connections' =
                    [connections EXCEPT ![database_].statements = @ + 1]
               /\ sql_last' = Call("Statement", FALSE, 0, 0)
  /\ UNCHANGED <<database_, db_alive, store, partial>>
  /\ UNCHANGED <<matchingVars, primeVars>>

\* SqliteStatement::~SqliteStatement: sqlite3_finalize.
DestroyStatement ==
  /\ \E s \in 1..MaxStatements :
       /\ statements[s].alive
       /\ connections' =
            [connections EXCEPT ![statements[s].database_].statements = @ - 1]
       /\ statements' = [statements EXCEPT ![s] = NoStatement]
       /\ sql_last' = Call("~SqliteStatement", FALSE, 0, 0)
  /\ UNCHANGED <<database_, db_alive, store, partial>>
  /\ UNCHANGED <<matchingVars, primeVars>>

\* A Bind* call on statement s with the given result.
Bound(s, op, result) ==
  /\ statements' =
       [statements EXCEPT ![s] =
          [result.statement EXCEPT !.binds = @ + 1]]
  /\ sql_last' = Call(op, FALSE, result.index, statements[s].binds + 1)
  /\ UNCHANGED <<database_, db_alive, connections, store, partial>>
  /\ UNCHANGED <<matchingVars, primeVars>>

\* statement->BindInt(value).
CallBindInt ==
  \E s \in 1..MaxStatements :
    /\ statements[s].alive
    /\ statements[s].parameter_ < MaxCursor
    /\ Bound(s, "BindInt", BindInt(statements[s]))

\* statement->BindInt64(value).
CallBindInt64 ==
  \E s \in 1..MaxStatements :
    /\ statements[s].alive
    /\ statements[s].parameter_ < MaxCursor
    /\ Bound(s, "BindInt64", BindInt64(statements[s]))

\* statement->BindDouble(value).
CallBindDouble ==
  \E s \in 1..MaxStatements :
    /\ statements[s].alive
    /\ statements[s].parameter_ < MaxCursor
    /\ Bound(s, "BindDouble", BindDouble(statements[s]))

\* statement->BindText(value).
CallBindText ==
  \E s \in 1..MaxStatements :
    /\ statements[s].alive
    /\ statements[s].parameter_ < MaxCursor
    /\ Bound(s, "BindText", BindText(statements[s]))

\* statement->BindNull(value).
CallBindNull ==
  \E s \in 1..MaxStatements :
    /\ statements[s].alive
    /\ statements[s].parameter_ < MaxCursor
    /\ Bound(s, "BindNull", BindNull(statements[s]))

\* statement->Into(&value), for each overload.
CallInto ==
  \E s \in 1..MaxStatements, type \in IntoTypes :
    /\ statements[s].alive
    /\ statements[s].column_ < MaxCursor
    /\ LET result == Into(statements[s], type)
       IN /\ statements' =
               [statements EXCEPT ![s] =
                  [result.statement EXCEPT !.intos = @ + 1]]
          /\ sql_last' = Call("Into", FALSE, result.index,
                              statements[s].intos + 1)
    /\ UNCHANGED <<database_, db_alive, connections, store, partial>>
    /\ UNCHANGED <<matchingVars, primeVars>>

\* statement->Execute(): sqlite3_step runs the statement on its connection.
CallExecute ==
  \E s \in 1..MaxStatements, outcome \in StepOutcomes :
    /\ statements[s].alive
    /\ statements[s].sql = "insert" /\ outcome = "SQLITE_DONE"
         => store + PendingRows(connections, MaxHandles) < MaxRows
    /\ LET handle == statements[s].database_
           step == sqlite3_step(connections[handle], statements[s].sql,
                                outcome)
           result == Execute(statements[s], step.return_code)
       IN /\ connections' = [connections EXCEPT ![handle] = step.connection]
          /\ store' = store + step.persisted
          /\ partial' = partial + step.partial
          /\ statements' =
               [statements EXCEPT ![s] =
                  [result.statement EXCEPT
                     !.binds = IF result.threw THEN @ ELSE 0,
                     !.intos = IF result.threw THEN @ ELSE 0]]
          /\ sql_last' = Call("Execute", result.threw, 0, 0)
    /\ UNCHANGED <<database_, db_alive>>
    /\ UNCHANGED <<matchingVars, primeVars>>

\* statement->Reset().
CallReset ==
  \E s \in 1..MaxStatements :
    /\ statements[s].alive
    /\ statements' = [statements EXCEPT ![s] = Reset(statements[s])]
    /\ sql_last' = Call("Reset", FALSE, 0, 0)
    /\ UNCHANGED <<database_, db_alive, connections, store, partial>>
    /\ UNCHANGED <<matchingVars, primeVars>>

\* Statement(sql)->Execute() on a temporary statement, which is finalized
\* when the call returns or throws.
ExecuteTemporary(op, sql) ==
  /\ IF sqlite3_prepare_v2(database_, sql) # "SQLITE_OK"
     THEN /\ sql_last' = Call(op, TRUE, 0, 0)
          /\ UNCHANGED <<connections, store, partial>>
     ELSE LET step == sqlite3_step(connections[database_], sql,
                                   "SQLITE_DONE")
              result == Execute(SqliteStatement(database_, sql),
                                step.return_code)
          IN /\ connections' =
                  [connections EXCEPT ![database_] = step.connection]
             /\ store' = store + step.persisted
             /\ partial' = partial + step.partial
             /\ sql_last' = Call(op, result.threw, 0, 0)
  /\ UNCHANGED <<database_, db_alive, statements>>
  /\ UNCHANGED <<matchingVars, primeVars>>

\* database.Begin().
Begin ==
  /\ db_alive
  /\ ExecuteTemporary("Begin", "begin transaction")

\* database.Commit().
Commit ==
  /\ db_alive
  /\ ExecuteTemporary("Commit", "commit transaction")

\* database.Rollback().
Rollback ==
  /\ db_alive
  /\ ExecuteTemporary("Rollback", "rollback transaction")

\* The connection, its transactions and the statements that run in them.
SqlNext ==
  \/ CallConnect
  \/ CallDisconnect
  \/ DestroyDatabase
  \/ CallStatement
  \/ DestroyStatement
  \/ CallExecute
  \/ Begin
  \/ Commit
  \/ Rollback

SqlSpec == SqlInit /\ [][SqlNext]_vars

\* The state SqliteDatabase::SqliteDatabase(filename) leaves when the file
\* opens.
StatementInit ==
  /\ MatchingIdle
  /\ PrimeIdle
  /\ LET result == Connect(NullHandle,
                           [h \in 1..MaxHandles |-> UnopenedConnection],
                           "SQLITE_OK")
     IN /\ database_ = result.database_
        /\ connections = result.connections
  /\ db_alive = TRUE
  /\ store = 0
  /\ partial = 0
  /\ statements = [s \in 1..MaxStatements |-> NoStatement]
  /\ sql_last = Call("Connect", FALSE, 0, 0)

\* The statements of a connected database and their bind and column cursors.
StatementNext ==
  \/ CallStatement
  \/ DestroyStatement
  \/ CallBindInt
  \/ CallBindInt64
  \/ CallBindDouble
  \/ CallBindText
  \/ CallBindNull
  \/ CallInto
  \/ CallExecute
  \/ CallReset

StatementSpec == StatementInit /\ [][StatementNext]_vars

----------------------------------------------------------------------------
\* Properties.

\* The most recent invocation was one of a prime matching step.
LastWasPrime == last.invoked /\ last.step.kind = "prime"

\* The pairs the most recent invocation added.
NewPairs == fixed_point \ last.before.fixed_point

\* The vertices of `vertices` the prime heuristic with minimum `minimum` can
\* match: no fixed point, and at least `minimum` instructions.
EligibleVertices(flow_graph, vertices, minimum) ==
  { v \in vertices :
      /\ flow_graph.fixed_point[v] = NoFixedPoint
      /\ flow_graph.instruction_count[v] >= minimum }

\* The eligible vertices of each side that carry `fingerprint`, as handed to
\* the most recent invocation.
Eligible1(fingerprint) ==
  { v \in EligibleVertices(last.before.primary, last.before.vertices1,
                           last.step.min_instructions_) :
      last.before.primary.prime[v] = fingerprint }

Eligible2(fingerprint) ==
  { v \in EligibleVertices(last.before.secondary, last.before.vertices2,
                           last.step.min_instructions_) :
      last.before.secondary.prime[v] = fingerprint }

\* C1: injectivity. No primary vertex and no secondary vertex is in more than
\* one pair of the fixed point, in any state of a run.
C1_Injectivity ==
  \A a \in fixed_point : \A b \in fixed_point :
    (a[1] = b[1] \/ a[2] = b[2]) => a = b

\* A prime step has added a pair to a fixed point that already held one.
C1_Witness ==
  /\ LastWasPrime
  /\ last.before.fixed_point # {}
  /\ NewPairs # {}

\* C2: a vertex is in its flow graph's unmatched Vertex Set exactly if it has
\* no entry in the fixed point, and no vertex of a Vertex Set handed to a step
\* has its fixed point annotation set.
C2_UnmatchedIffNoFixedPoint ==
  /\ \A v \in primary.vertices :
       v \in vertices1 <=> ~\E pair \in fixed_point : pair[1] = v
  /\ \A v \in secondary.vertices :
       v \in vertices2 <=> ~\E pair \in fixed_point : pair[2] = v
  /\ vertices1 \subseteq primary.vertices
  /\ vertices2 \subseteq secondary.vertices
  /\ \A v \in vertices1 : ~GetFixedPoint(primary, v)
  /\ \A v \in vertices2 : ~GetFixedPoint(secondary, v)
  /\ \A v \in last.before.vertices1 : ~GetFixedPoint(last.before.primary, v)
  /\ \A v \in last.before.vertices2 : ~GetFixedPoint(last.before.secondary, v)

\* A step was handed Vertex Sets from which earlier matches were removed, and
\* unmatched vertices are left on both sides.
C2_Witness ==
  /\ last.invoked
  /\ last.before.fixed_point # {}
  /\ last.before.vertices1 # {}
  /\ last.before.vertices2 # {}
  /\ last.before.vertices1 # primary.vertices

\* C3: ambiguity deferral. If a fingerprint has two or more eligible vertices
\* on the primary side or on the secondary side, an invocation of the prime
\* heuristic adds no pair with a vertex that carries that fingerprint.
C3_AmbiguityDeferral ==
  LastWasPrime =>
    \A fingerprint \in PrimeValues :
      (\/ Cardinality(Eligible1(fingerprint)) >= 2
       \/ Cardinality(Eligible2(fingerprint)) >= 2)
      => \A pair \in NewPairs :
           /\ last.before.primary.prime[pair[1]] # fingerprint
           /\ last.before.secondary.prime[pair[2]] # fingerprint

\* Two primary blocks and one secondary block share a fingerprint, all three
\* eligible, and the prime step has run on them.
C3_Witness ==
  /\ LastWasPrime
  /\ \E fingerprint \in PrimeValues :
       /\ Cardinality(Eligible1(fingerprint)) = 2
       /\ Cardinality(Eligible2(fingerprint)) = 1
       /\ NewPairs = {}

\* C4: applicability filter. A prime step with minimum m adds no pair with a
\* block of fewer than m instructions; a block of exactly m instructions is
\* eligible: if it alone is eligible for its fingerprint on its side, and one
\* block is on the other side, it is matched.
C4_ApplicabilityFilter ==
  LastWasPrime =>
    LET m == last.step.min_instructions_
    IN  /\ \A pair \in NewPairs :
             /\ last.before.primary.instruction_count[pair[1]] >= m
             /\ last.before.secondary.instruction_count[pair[2]] >= m
        /\ \A v \in last.before.vertices1 :
             ( /\ last.before.primary.instruction_count[v] = m
               /\ Eligible1(last.before.primary.prime[v]) = {v}
               /\ Cardinality(Eligible2(last.before.primary.prime[v])) = 1 )
             => \E pair \in NewPairs : pair[1] = v
        /\ \A v \in last.before.vertices2 :
             ( /\ last.before.secondary.instruction_count[v] = m
               /\ Eligible2(last.before.secondary.prime[v]) = {v}
               /\ Cardinality(Eligible1(last.before.secondary.prime[v])) = 1 )
             => \E pair \in NewPairs : pair[2] = v

\* A block of exactly m instructions was matched although a block below m,
\* left unmatched, has the same fingerprint.
C4_Witness ==
  /\ LastWasPrime
  /\ \E pair \in NewPairs : \E v \in vertices1 :
       /\ last.before.primary.instruction_count[pair[1]]
            = last.step.min_instructions_
       /\ primary.prime[v] = primary.prime[pair[1]]
       /\ primary.instruction_count[v] < last.step.min_instructions_

\* C5: pairing. After an invocation of the prime heuristic, for every
\* fingerprint with exactly one eligible vertex on each side, the pair of the
\* two vertices is in the fixed point.
C5_Pairing ==
  LastWasPrime =>
    \A fingerprint \in PrimeValues :
      ( /\ Cardinality(Eligible1(fingerprint)) = 1
        /\ Cardinality(Eligible2(fingerprint)) = 1 )
      => \A v1 \in Eligible1(fingerprint) : \A v2 \in Eligible2(fingerprint) :
           <<v1, v2>> \in fixed_point

\* Two fingerprints each identified one eligible vertex on each side, and the
\* prime step has paired both.
C5_Witness ==
  /\ LastWasPrime
  /\ \A fingerprint \in PrimeValues :
       /\ Cardinality(Eligible1(fingerprint)) = 1
       /\ Cardinality(Eligible2(fingerprint)) = 1
  /\ Cardinality(NewPairs) = 2

\* The driver has a step to take: a step of the pass, another pass, or the end
\* of the run.
CanProceed ==
  \/ phase = "setup"
  \/ /\ phase = "run"
     /\ \/ step_index <= Len(matching_steps)
        \/ ~progress
        \/ pass < MaxPasses

\* How far the driver has come: every step it takes raises this number.
Advance ==
  Len(matching_steps) + pass * (MaxSteps + 2) + step_index
    + (IF phase = "setup" THEN 0 ELSE IF phase = "run" THEN 1 ELSE 2)

\* C6: termination. At most |V1| + |V2| passes come before the pass without
\* new matches, V1 and V2 being the initial unmatched Vertex Sets; until that
\* pass has ended the run the driver has a step to take, and every step takes
\* it further, so the run ends; it ends after a pass without new matches.
C6_Termination ==
  /\ [](pass - 1 <= Cardinality(primary.vertices)
                      + Cardinality(secondary.vertices))
  /\ [](phase = "converged" \/ CanProceed)
  /\ [](phase = "converged" =>
          ~progress /\ step_index = Len(matching_steps) + 1)
  /\ [][Advance' > Advance]_vars

\* The run has ended after two passes with new matches and a third without.
C6_Witness ==
  /\ phase = "converged"
  /\ pass = 3
  /\ Cardinality(primary.vertices) + Cardinality(secondary.vertices) = 4

\* Under the driver's scheduling the pass without new matches is reached.
C6_Converges == <>(phase = "converged")

\* C7: monotonicity. No step of a run adds a vertex to an unmatched Vertex
\* Set: neither set grows in size, and a vertex that has left does not return.
C7_Monotonicity ==
  [][ /\ vertices1' \subseteq vertices1
      /\ vertices2' \subseteq vertices2
      /\ Cardinality(vertices1') <= Cardinality(vertices1)
      /\ Cardinality(vertices2') <= Cardinality(vertices2) ]_vars

\* Both sets have shrunk in one invocation and again in a later one.
C7_Witness ==
  /\ last.invoked
  /\ Cardinality(last.before.vertices1) < Cardinality(primary.vertices)
  /\ Cardinality(vertices1) < Cardinality(last.before.vertices1)
  /\ Cardinality(vertices2) < Cardinality(last.before.vertices2)

\* C8: FindFixedPoints returns true exactly if the invocation added a pair to
\* the fixed point; when it returns false the fixed point and every vertex's
\* annotation are as before, and the run ends only after such returns.
C8_ResultIffProgress ==
  LastWasPrime =>
    /\ last.result <=> NewPairs # {}
    /\ ~last.result =>
         /\ fixed_point = last.before.fixed_point
         /\ primary.fixed_point = last.before.primary.fixed_point
         /\ secondary.fixed_point = last.before.secondary.fixed_point
    /\ last.result => progress \/ step_index = 1
    /\ phase = "converged" => ~last.result

\* A prime step has returned false on eligible vertices of both sides, after
\* an earlier invocation had added a pair.
C8_Witness ==
  /\ LastWasPrime
  /\ ~last.result
  /\ fixed_point # {}
  /\ EligibleVertices(primary, vertices1, last.step.min_instructions_) # {}
  /\ EligibleVertices(secondary, vertices2, last.step.min_instructions_) # {}

\* C9: a prime matching step with an invalid (negative) minimum is rejected
\* at construction, so no step that takes part in a run carries one.
C9_InvalidMinimumRejected ==
  LastWasPrime => last.step.min_instructions_ >= 0

\* C10: a step is purely additive. Vertices, edges and block features of both
\* flow graphs stay as they are, every pair of the fixed point stays, and a
\* vertex with a fixed point keeps it.
C10_PurelyAdditive ==
  [][ /\ primary'.vertices = primary.vertices
      /\ primary'.edges = primary.edges
      /\ primary'.instruction_count = primary.instruction_count
      /\ primary'.prime = primary.prime
      /\ secondary'.vertices = secondary.vertices
      /\ secondary'.edges = secondary.edges
      /\ secondary'.instruction_count = secondary.instruction_count
      /\ secondary'.prime = secondary.prime
      /\ fixed_point \subseteq fixed_point'
      /\ \A v \in primary.vertices :
           GetFixedPoint(primary, v)
             => primary'.fixed_point[v] = primary.fixed_point[v]
      /\ \A v \in secondary.vertices :
           GetFixedPoint(secondary, v)
             => secondary'.fixed_point[v] = secondary.fixed_point[v] ]_vars

\* A prime step has extended a fixed point that held a pair, in flow graphs
\* that have edges.
C10_Witness ==
  /\ LastWasPrime
  /\ last.before.fixed_point # {}
  /\ last.before.fixed_point \subseteq fixed_point
  /\ NewPairs # {}
  /\ primary.edges # {}
  /\ secondary.edges # {}

\* The product of the block's primes as a number, without a width.
RECURSIVE ExactProduct(_)
ExactProduct(block) ==
  IF block = <<>>
    THEN 1
    ELSE ExactProduct(SubSeq(block, 1, Len(block) - 1))
           * InstructionPrime(block[Len(block)])

\* The prime product of the block fits the integer it is stored in.
Fits(block) == ExactProduct(block) < TwoToThe(PrimeBits)

Mirror(pairs) == {<<pair[2], pair[1]>> : pair \in pairs}

\* The most recent invocation, made with the flow graphs and Vertex Sets
\* exchanged.
SwappedInvocation ==
  FindFixedPoints(last.before.secondary, last.before.primary,
                  last.before.vertices2, last.before.vertices1,
                  Mirror(last.before.fixed_point),
                  last.step.min_instructions_)

\* C14: symmetry. The prime step invoked with the flow graphs and their
\* unmatched sets exchanged accepts (v, u) exactly if the original invocation
\* accepts (u, v), and returns the same bool.
C14_Symmetry ==
  LastWasPrime =>
    /\ SwappedInvocation.fixed_point \ Mirror(last.before.fixed_point)
         = Mirror(NewPairs)
    /\ SwappedInvocation.result = last.result

\* A prime step has paired vertices of different numbers, in flow graphs of
\* different sizes.
C14_Witness ==
  /\ LastWasPrime
  /\ \E pair \in NewPairs : pair[1] # pair[2]
  /\ Cardinality(primary.vertices) # Cardinality(secondary.vertices)

\* Earlier contents of a feature index.
StaleIndex == {<<30, 1>>, <<7, 2>>}

\* The index GetUnmatchedBasicBlocksByPrime is to build.
ExpectedIndex(flow_graph, vertices, minimum) ==
  { <<flow_graph.prime[v], v>> :
      v \in EligibleVertices(flow_graph, vertices, minimum) }

\* The index is the expected one, with an entry for every eligible vertex.
IndexIsExact(flow_graph, vertices, minimum) ==
  \A basic_blocks_map \in {{}, StaleIndex} :
    LET index == GetUnmatchedBasicBlocksByPrime(flow_graph, vertices,
                                                basic_blocks_map, minimum)
    IN  /\ index = ExpectedIndex(flow_graph, vertices, minimum)
        /\ Cardinality(index)
             = Cardinality(EligibleVertices(flow_graph, vertices, minimum))
        /\ \A entry \in index :
             /\ entry[2] \in vertices
             /\ ~GetFixedPoint(flow_graph, entry[2])

\* C15: index construction. After GetUnmatchedBasicBlocksByPrime the index
\* holds one entry (fingerprint(v), v) for each vertex v of the Vertex Set
\* without a fixed point and with at least the minimum of instructions, and no
\* other entry: whatever it held before, whether the set holds matched
\* vertices, and whether vertices share a fingerprint.
C15_IndexConstruction ==
  \A minimum \in MinInstructionChoices :
    /\ IndexIsExact(primary, primary.vertices, minimum)
    /\ IndexIsExact(primary, vertices1, minimum)
    /\ IndexIsExact(secondary, secondary.vertices, minimum)
    /\ IndexIsExact(secondary, vertices2, minimum)
    /\ IndexIsExact(last.before.primary, last.before.vertices1, minimum)
    /\ IndexIsExact(last.before.secondary, last.before.vertices2, minimum)

\* Two eligible secondary blocks shared fingerprint 30 when the most recent
\* step was invoked, and the index kept both; now the primary flow graph has
\* a matched block and an unmatched block below the minimum 2, and its index
\* for that minimum is empty.
C15_Witness ==
  /\ \E v \in primary.vertices : GetFixedPoint(primary, v)
  /\ \E v \in primary.vertices :
       ~GetFixedPoint(primary, v) /\ primary.instruction_count[v] < 2
  /\ Cardinality(ExpectedIndex(primary, primary.vertices, 2)) = 0
  /\ Cardinality(ExpectedIndex(last.before.secondary,
                               last.before.vertices2, 2)) = 2
  /\ \A v \in secondary.vertices : secondary.prime[v] = 30

----------------------------------------------------------------------------
\* Properties of the persistence adapter.

\* The names of the Bind* calls.
BindOps == {"BindInt", "BindInt64", "BindDouble", "BindText", "BindNull"}

\* The calls that end in SqliteDatabase::Disconnect.
DisconnectOps == {"Disconnect", "~SqliteDatabase"}

\* The step is a call of Connect on a database that holds a connection.
ConnectWhileConnected == sql_last'.op = "Connect" /\ database_ # NullHandle

\* The step is a call of Connect on a database that holds no connection.
ConnectWhileDisconnected == sql_last'.op = "Connect" /\ database_ = NullHandle

\* The step is a call of Disconnect on a database that holds no connection.
DisconnectWhileDisconnected ==
  sql_last'.op = "Disconnect" /\ database_ = NullHandle

\* C12: if a statement execution fails in a batch of writes issued between
\* Begin and Commit, none of the batch's writes is persisted: the database
\* file never holds rows committed by a batch in which an execution failed.
C12_TransactionalAtomicity == partial = 0

\* C13: no live statement is on a connection handle that has been closed,
\* and once Disconnect or the destructor has returned no handle opened by
\* Connect is still open.
C13_StatementsNeverOutliveConnection ==
  /\ \A s \in 1..MaxStatements :
       statements[s].alive =>
         connections[statements[s].database_].state = "open"
  /\ sql_last.op \in DisconnectOps => OpenHandles(connections) = {}

\* C16: the call that follows an Execute, successful or failing, or a Reset
\* targets positional parameter 1 if it is a Bind* call and reads column 0
\* if it is an Into call.
C16_CursorsResetEachCycle ==
  [][sql_last.op \in {"Execute", "Reset"} =>
       /\ sql_last'.op \in BindOps => sql_last'.index = 1
       /\ sql_last'.op = "Into" => sql_last'.index = 0]_vars

\* C17: the k-th Bind* call since the statement was prepared or last executed
\* successfully binds positional parameter k, and the k-th Into call since
\* then reads column k - 1, whatever the value types.
C17_PositionalBindingAndExtraction ==
  /\ sql_last.op \in BindOps => sql_last.index = sql_last.nth
  /\ sql_last.op = "Into" => sql_last.index = sql_last.nth - 1

\* A second Bind* call after a first, here of a null after some other value.
C17_Witness == sql_last.op = "BindNull" /\ sql_last.nth = 2

\* C18: Connect on a database that holds a connection throws and leaves the
\* connection as it was; the handle the database holds is open, and every
\* other open handle is one that sqlite3_close refused to close.
C18_ConnectWhileConnectedRejected ==
  /\ [](/\ database_ # NullHandle => connections[database_].state = "open"
        /\ \A h \in OpenHandles(connections) :
             h = database_ \/ connections[h].close_refused)
  /\ [][ConnectWhileConnected =>
          /\ sql_last'.threw
          /\ database_' = database_
          /\ connections' = connections]_vars

\* Connect has thrown on a database that still holds its connection.
C18_Witness ==
  /\ sql_last.op = "Connect"
  /\ sql_last.threw
  /\ database_ # NullHandle
  /\ connections[database_].state = "open"

\* C19: after a Connect that fails to open and after any Disconnect the
\* database holds no handle; Disconnect on a database that holds no handle
\* changes nothing; Connect on such a database opens a fresh handle or fails
\* to open, and is never rejected with the database left as it was.
C19_DisconnectedState ==
  /\ [](/\ sql_last.op \in DisconnectOps => database_ = NullHandle
        /\ sql_last.op = "Connect" /\ sql_last.threw =>
             \/ database_ = NullHandle
             \/ connections[database_].state = "open")
  /\ [][DisconnectWhileDisconnected =>
          /\ ~sql_last'.threw
          /\ UNCHANGED <<database_, db_alive, connections, store, partial,
                         statements>>]_vars
  /\ [][ConnectWhileDisconnected =>
          IF sql_last'.threw
          THEN database_' = NullHandle /\ connections' = connections
          ELSE /\ database_' # NullHandle
               /\ connections[database_'].state = "unopened"
               /\ connections'[database_'].state = "open"]_vars

\* Connect has failed to open and the database holds no handle.
C19_Witness ==
  /\ sql_last.op = "Connect"
  /\ sql_last.threw
  /\ database_ = NullHandle

====
